---------------------------- MODULE Spec2Model ----------------------------
(***************************************************************************)
(* A model of the Solidity formatter of fmt/src/formatter.rs.              *)
(*                                                                         *)
(* Text is a sequence of bytes, each byte a one-character string; the two  *)
(* bytes of the one non-ASCII character the model uses are the tokens      *)
(* Lead and Cont.  Offsets into a text are 0-based as in the source, so    *)
(* the Rust slice t[a..b] is SubSeq(t, a + 1, b).                          *)
(*                                                                         *)
(* Every operation of the formatter is an operator from the formatter      *)
(* value (struct Formatter) to a result [self, r], r being "Ok", the       *)
(* recoverable "Utf8Error", or "Panic" for an abort.  The sink is a        *)
(* String, as in tests::test_formatter, so a write itself never fails.     *)
(***************************************************************************)
EXTENDS Integers, Sequences, FiniteSets, TLC

VARIABLES
    fmt,    \* the Formatter: w, source, config, level, pending_indent, bufs, current_line
    ast,    \* the source unit parsed from fmt.source
    call    \* the last operation called on it: its name, argument, result and
            \* the formatter as it was when the call was made

vars == <<fmt, ast, call>>

----------------------------------------------------------------------------
(* Bounds of the model *)

MaxOut == 2         \* writer operations are tried while the sink holds at most this many bytes
MaxLine == 3        \* ... and the line counter is at most this
MaxLevel == 2       \* indent() is tried while the level is below this
MaxParts == 2       \* most members of a contract body
MaxBases == 3       \* longest base list of a contract
MaxGapNewlines == 3 \* most line breaks between two members of a contract body
MaxImports == 3     \* longest renamed-import list
MaxUnits == 3       \* most top-level units of a source unit
MaxValues == 2      \* most values of an enumeration

----------------------------------------------------------------------------
(* Text *)

NL == "\n"
SP == " "
Lead == "<C3>"      \* first byte of a two-byte UTF-8 character
Cont == "<A9>"      \* its continuation byte

\* The ASCII bytes the model's texts use, in byte order (what String's Ord compares).
ByteOrder ==
    <<NL, SP, "\"", "$", "(", ")", ",", ".", "0", "8", ";", "A", "B", "C", "E",
      "X", "Y", "^", "_", "a", "b", "c", "d", "e", "f", "g", "h", "i", "j", "k",
      "l", "m", "n", "o", "p", "q", "r", "s", "t", "u", "v", "w", "x", "y", "z",
      "{", "}", Lead, Cont>>

byte_rank(b) == CHOOSE i \in 1..Len(ByteOrder) : ByteOrder[i] = b

RECURSIVE str_lt(_, _)
str_lt(a, b) ==
    IF b = <<>> THEN FALSE
    ELSE IF a = <<>> THEN TRUE
    ELSE IF Head(a) = Head(b) THEN str_lt(Tail(a), Tail(b))
    ELSE byte_rank(Head(a)) < byte_rank(Head(b))

str_le(a, b) == a = b \/ str_lt(a, b)

RECURSIVE repeat(_, _)
repeat(b, n) == IF n = 0 THEN <<>> ELSE <<b>> \o repeat(b, n - 1)

RECURSIVE join(_, _)
join(items, separator) ==
    IF items = <<>> THEN <<>>
    ELSE IF Len(items) = 1 THEN items[1]
    ELSE items[1] \o separator \o join(Tail(items), separator)

ends_with_newline(s) == s /= <<>> /\ s[Len(s)] = NL

is_whitespace(b) == b \in {SP, NL}

RECURSIVE trim_end(_)
trim_end(s) ==
    IF s /= <<>> /\ is_whitespace(s[Len(s)]) THEN trim_end(SubSeq(s, 1, Len(s) - 1))
    ELSE s

RECURSIVE matches_count(_, _)
matches_count(s, b) ==
    IF s = <<>> THEN 0
    ELSE (IF Head(s) = b THEN 1 ELSE 0) + matches_count(Tail(s), b)

\* String::from_utf8 accepts the bytes: every Lead is followed by a Cont and every
\* Cont follows a Lead.
from_utf8_ok(bytes) ==
    \A i \in 1..Len(bytes) :
        /\ bytes[i] = Lead => (i < Len(bytes) /\ bytes[i + 1] = Cont)
        /\ bytes[i] = Cont => (i > 1 /\ bytes[i - 1] = Lead)

\* str::is_char_boundary: offset i of s does not fall inside a character.
is_char_boundary(s, i) ==
    i = 0 \/ i = Len(s) \/ (i < Len(s) /\ s[i + 1] /= Cont)

\* The range a..b can be sliced out of the bytes of s without a panic.
bytes_range_ok(s, a, b) == a <= b /\ b <= Len(s)

\* The range a..b can be sliced out of the str s without a panic.
str_range_ok(s, a, b) ==
    bytes_range_ok(s, a, b) /\ is_char_boundary(s, a) /\ is_char_boundary(s, b)

slice(s, a, b) == SubSeq(s, a + 1, b)

----------------------------------------------------------------------------
(* Results *)

Ok(self) == [self |-> self, r |-> "Ok"]
Err(self, e) == [self |-> self, r |-> e]

\* op(v), with v evaluated once.
bind(v, op(_)) == CHOOSE y \in {op(x) : x \in {v}} : TRUE

\* The ? operator: op runs on the formatter res left behind unless res failed.
and_then(res, op(_)) == bind(res, LAMBDA x : IF x.r = "Ok" THEN op(x.self) ELSE x)

----------------------------------------------------------------------------
(* The formatter and its writer *)

DefaultConfig == [line_length |-> 80, tab_width |-> 4, bracket_spacing |-> FALSE]

new(source, config) ==
    [w |-> <<>>, source |-> source, config |-> config, level |-> 0,
     pending_indent |-> TRUE, bufs |-> <<>>, current_line |-> 0]

\* The level indent and dedent act on and write_str indents by: that of the
\* innermost capture buffer, else the formatter's own.
level(self) ==
    IF self.bufs /= <<>> THEN self.bufs[Len(self.bufs)][1] ELSE self.level

set_level(self, l) ==
    IF self.bufs /= <<>>
    THEN [self EXCEPT !.bufs[Len(self.bufs)][1] = l]
    ELSE [self EXCEPT !.level = l]

indent(self, delta) == set_level(self, level(self) + delta)

dedent(self, delta) ==
    set_level(self, IF level(self) >= delta THEN level(self) - delta ELSE 0)

\* indent_write's IndentWriter::write_str on a writer created with need_indent
\* set: the indent goes before the first byte of every line of s that is not empty.
RECURSIVE indent_writer(_, _, _)
indent_writer(ind, need_indent, s) ==
    IF s = <<>> THEN <<>>
    ELSE IF need_indent
         THEN IF Head(s) = NL
              THEN <<NL>> \o indent_writer(ind, TRUE, Tail(s))
              ELSE ind \o <<Head(s)>> \o indent_writer(ind, FALSE, Tail(s))
         ELSE <<Head(s)>> \o indent_writer(ind, Head(s) = NL, Tail(s))

\* What write_str hands to its destination for s.
indented(self, s) ==
    IF self.pending_indent
    THEN indent_writer(repeat(SP, self.config.tab_width * level(self)), TRUE, s)
    ELSE s

\* Appends to the destination of writes: the innermost capture buffer, else the sink.
push_str(self, t) ==
    IF self.bufs /= <<>>
    THEN [self EXCEPT !.bufs[Len(self.bufs)][2] = @ \o t]
    ELSE [self EXCEPT !.w = @ \o t]

write_str(self, s) ==
    LET written == push_str(self, indented(self, s))
        pending == ends_with_newline(s)
    IN  [written EXCEPT !.current_line = IF pending THEN 0 ELSE @ + Len(s),
                        !.pending_indent = pending]

\* write!/writeln! with the pieces of its format string: one write_str a piece.
RECURSIVE write_pieces(_, _)
write_pieces(self, pieces) ==
    IF pieces = <<>> THEN self
    ELSE write_pieces(write_str(self, Head(pieces)), Tail(pieces))

write(self, pieces) == Ok(write_pieces(self, pieces))

writeln(self) == Ok(write_str(self, <<NL>>))

write_opening_bracket(self) ==
    Ok(write_str(self, IF self.config.bracket_spacing THEN <<"{", SP>> ELSE <<"{">>))

write_closing_bracket(self) ==
    Ok(write_str(self, IF self.config.bracket_spacing THEN <<SP, "}">> ELSE <<"}">>))

write_empty_brackets(self) ==
    Ok(write_str(self, IF self.config.bracket_spacing THEN <<"{", SP, "}">> ELSE <<"{", "}">>))

len_indented_with_current(self, s) ==
    (IF self.pending_indent THEN self.config.tab_width * self.level ELSE 0)
        + self.current_line + Len(s)

is_separated_multiline(self, items, separator) ==
    len_indented_with_current(self, join(items, separator)) > self.config.line_length

RECURSIVE write_items(_, _, _, _)
write_items(self, items, separator, i) ==
    IF i > Len(items) THEN self
    ELSE LET item == write_str(self, items[i])
         IN  write_items(
                 IF i /= Len(items)
                 THEN write_pieces(item, <<trim_end(separator), <<NL>>>>)
                 ELSE item,
                 items, separator, i + 1)

write_separated(self, items, separator, multiline) ==
    IF multiline
    THEN Ok(write_items(self, items, separator, 1))
    ELSE write(self, <<join(items, separator)>>)

\* A Loc is <<file_no, start, end>>.
visit_source(self, loc) ==
    IF ~bytes_range_ok(self.source, loc[2], loc[3]) THEN Err(self, "Panic")
    ELSE IF ~from_utf8_ok(slice(self.source, loc[2], loc[3])) THEN Err(self, "Utf8Error")
    ELSE write(self, <<slice(self.source, loc[2], loc[3])>>)

\* Returns the result of the visit and, in s, the captured string.
visit_to_string(self, loc) ==
    LET pushed == [self EXCEPT !.bufs = Append(@, <<0, <<>>>>)]
        visited == visit_source(pushed, loc)
    IN  IF visited.r /= "Ok" THEN [self |-> visited.self, r |-> visited.r, s |-> <<>>]
        ELSE [self |-> [visited.self EXCEPT !.bufs = SubSeq(@, 1, Len(@) - 1)],
              r |-> "Ok",
              s |-> visited.self.bufs[Len(visited.self.bufs)][2]]

----------------------------------------------------------------------------
(* The visitor: one operator a node kind *)

\* What write! writes for each text the model uses more than once.
T_is == <<"i", "s">>
T_import == <<"i", "m", "p", "o", "r", "t">>
T_pragma == <<"p", "r", "a", "g", "m", "a">>
T_enum == <<"e", "n", "u", "m">>
T_as == <<SP, "a", "s", SP>>
T_from == <<SP, "f", "r", "o", "m", SP, "\"">>
T_doc == <<"/", "/", "/", SP, "@">>
T_solidity == <<"s", "o", "l", "i", "d", "i", "t", "y">>
CommaSpace == <<",", SP>>

visit_doc_comment(self, doc_comment) ==
    write(self, <<T_doc, doc_comment.tag, <<SP>>, doc_comment.value>>)

RECURSIVE visit_docs(_, _)
visit_docs(self, docs) ==
    IF docs = <<>> THEN Ok(self)
    ELSE LET visited == and_then(visit_doc_comment(self, Head(docs)), writeln)
         IN  IF visited.r /= "Ok" THEN visited ELSE visit_docs(visited.self, Tail(docs))

\* semver::VersionReq::parse is outside the repository: a pragma node carries
\* what it returns for the node's string, <<>> (it failed) or <<normalized>>.
visit_pragma(self, pragma) ==
    LET named == write(self, <<T_pragma \o <<SP>>, pragma.ident>>)
    IN  and_then(named, LAMBDA f :
            IF pragma.ident = T_solidity /\ pragma.semver /= <<>>
            THEN write(f, <<pragma.semver[1], <<";">>>>)
            ELSE write(f, <<pragma.str, <<";">>>>))

visit_import_plain(self, import) ==
    write(self, <<T_import \o <<SP, "\"">>, import.string, <<"\"", ";">>>>)

visit_import_global(self, import) ==
    write(self, <<T_import \o <<SP, "\"">>, import.string, <<"\"">> \o T_as,
                  import.alias, <<";">>>>)

\* format!("{}{}", ident.name, alias.map_or("", " as {alias}")); an alias is
\* <<>> (None) or <<name>>.
import_entry(import) ==
    import[1] \o (IF import[2] = <<>> THEN <<>> ELSE T_as \o import[2][1])

\* The element of items that .sort() puts first, and items without it.
min_index(items) ==
    CHOOSE i \in 1..Len(items) :
        /\ \A j \in 1..Len(items) : str_le(items[i], items[j])
        /\ \A j \in 1..(i - 1) : items[j] /= items[i]

remove_at(items, i) == SubSeq(items, 1, i - 1) \o SubSeq(items, i + 1, Len(items))

\* sort left out: the entries in the order of the input.
sort_skipped(items) == items

RECURSIVE sort(_)
sort(items) ==
    IF items = <<>> THEN <<>>
    ELSE <<items[min_index(items)]>> \o sort(remove_at(items, min_index(items)))

visit_import_renames(self, node) ==
    LET imports == sort([i \in 1..Len(node.imports) |-> import_entry(node.imports[i])])
        started == write(self, <<T_import \o <<SP>>>>)
        multiline == is_separated_multiline(started.self, imports, CommaSpace)
        opened == IF multiline
                  THEN and_then(write(started.self, <<<<"{", NL>>>>),
                                LAMBDA f : Ok(indent(f, 1)))
                  ELSE write_opening_bracket(started.self)
        listed == and_then(opened,
                      LAMBDA f : write_separated(f, imports, CommaSpace, multiline))
        closed == and_then(listed, LAMBDA f :
                      IF multiline THEN write(dedent(f, 1), <<<<NL, "}">>>>)
                      ELSE write_closing_bracket(f))
    IN  and_then(closed, LAMBDA f : write(f, <<T_from, node.from, <<"\"", ";">>>>))

RECURSIVE write_values(_, _, _)
write_values(self, values, i) ==
    IF i > Len(values) THEN self
    ELSE LET value == write_str(self, values[i])
             comma == IF i /= Len(values) THEN write_str(value, <<",">>) ELSE value
         IN  write_values(write_str(comma, <<NL>>), values, i + 1)

visit_enum(self, enumeration) ==
    LET named == write(self, <<T_enum \o <<SP>>, enumeration.name, <<SP>>>>)
    IN  and_then(named, LAMBDA f :
            IF enumeration.values = <<>> THEN write_empty_brackets(f)
            ELSE LET opened == indent(write_pieces(f, <<<<"{">>, <<NL>>>>), 1)
                     listed == dedent(write_values(opened, enumeration.values, 1), 1)
                 IN  write(listed, <<<<"}">>>>))

\* Visitor::visit_statement is not overridden by the formatter: a body is
\* copied through as a unit.
visit_statement(self, body) == visit_source(self, body)

\* A body is <<>> (None) or <<loc>>.
visit_function(self, func) ==
    LET docs == visit_docs(self, func.doc)
        signature ==
            and_then(docs, LAMBDA f :
                IF func.ty = "Constructor"
                THEN LET constructor_definition == visit_to_string(f, func.loc)
                     IN  IF constructor_definition.r /= "Ok"
                         THEN Err(constructor_definition.self, constructor_definition.r)
                         ELSE write(constructor_definition.self,
                                    <<trim_end(constructor_definition.s)>>)
                ELSE visit_source(f, func.loc))
    IN  and_then(signature, LAMBDA f :
            IF func.body /= <<>>
            THEN and_then(write(f, <<<<SP>>>>),
                          LAMBDA g : visit_statement(g, func.body[1]))
            ELSE write(f, <<<<";">>>>))

visit_var_def(self, var) ==
    and_then(visit_source(self, var.loc), LAMBDA f : write(f, <<<<";">>>>))

\* Visitable::visit of a ContractPart: the visitor's method for its kind.
visit_part(self, part) ==
    CASE part.kind = "var" -> visit_var_def(self, part)
      [] part.kind = "enum" -> visit_enum(self, part)
      [] part.kind = "func" -> visit_function(self, part)

\* LineOfCode::loc of a ContractPart: the span of the node.
part_loc(part) == part.loc

\* .map(|base| self.visit_to_string(&mut base.loc)).collect::<Result<Vec<_>, _>>():
\* the captures in order, up to the first that fails.  The strings are in items.
RECURSIVE capture_bases(_, _, _)
capture_bases(self, base, items) ==
    IF Len(items) = Len(base) THEN [self |-> self, r |-> "Ok", items |-> items]
    ELSE bind(visit_to_string(self, base[Len(items) + 1].loc), LAMBDA captured :
             IF captured.r /= "Ok"
             THEN [self |-> captured.self, r |-> captured.r, items |-> items]
             ELSE capture_bases(captured.self, base, Append(items, captured.s)))

\* The base list once the bases are captured.
write_bases(self, bases, multiline) ==
    LET opened == IF multiline THEN Ok(indent(write_str(self, <<NL>>), 1))
                  ELSE write(self, <<<<SP>>>>)
        listed == and_then(opened,
                      LAMBDA f : write_separated(f, bases, CommaSpace, multiline))
    IN  and_then(listed, LAMBDA f :
            IF multiline THEN writeln(dedent(f, 1)) ELSE write(f, <<<<SP>>>>))

visit_bases(self, base) ==
    bind(capture_bases(write_str(self, T_is), base, <<>>), LAMBDA bases :
        IF bases.r /= "Ok" THEN Err(bases.self, bases.r)
        ELSE bind(is_separated_multiline(bases.self, bases.items, CommaSpace),
                  LAMBDA multiline : write_bases(bases.self, bases.items, multiline)))

\* separate_parts with the threshold off by one: a blank line as soon as the
\* slice holds one line break.
separate_parts_one_break(self, parts, i) ==
    IF i /= Len(parts) /\ i + 1 <= Len(parts)
    THEN LET from == part_loc(parts[i])[3] + 1
             to == part_loc(parts[i + 1])[2]
             empty_lines == matches_count(slice(self.source, from, to), NL)
         IN  IF ~str_range_ok(self.source, from, to) THEN Err(self, "Panic")
             ELSE IF empty_lines > 0 THEN writeln(self) ELSE Ok(self)
    ELSE Ok(self)

\* What follows part i once it is written and its line ended: the blank line
\* that separates it from the next part, if the source asks for one.
separate_parts(self, parts, i) ==
    IF i /= Len(parts)
    THEN IF i + 1 <= Len(parts)
         THEN LET from == part_loc(parts[i])[3] + 1
                  to == part_loc(parts[i + 1])[2]
                  empty_lines == matches_count(slice(self.source, from, to), NL)
              IN  IF ~str_range_ok(self.source, from, to) THEN Err(self, "Panic")
                  ELSE IF empty_lines > 1 THEN writeln(self) ELSE Ok(self)
         ELSE writeln(self)
    ELSE Ok(self)

\* The loop over contract.parts from part i on.  marks is not state of the
\* program: it records, for each part visited, the length of the sink before and
\* after the part was written, which is where a parse of the output finds it.
RECURSIVE visit_parts(_, _, _, _)
visit_parts(self, parts, i, marks) ==
    IF i > Len(parts) THEN [self |-> self, r |-> "Ok", marks |-> marks]
    ELSE bind(visit_part(self, parts[i]), LAMBDA part :
           IF part.r /= "Ok" THEN [self |-> part.self, r |-> part.r, marks |-> marks]
           ELSE bind(separate_parts(write_str(part.self, <<NL>>), parts, i),
                     LAMBDA separated :
                  IF separated.r /= "Ok"
                  THEN [self |-> separated.self, r |-> separated.r, marks |-> marks]
                  ELSE visit_parts(separated.self, parts, i + 1,
                           Append(marks, <<Len(self.w), Len(part.self.w)>>))))

visit_body(self, parts) ==
    IF parts = <<>> THEN write_empty_brackets(self)
    ELSE bind(visit_parts(indent(write_pieces(self, <<<<"{">>, <<NL>>>>), 1), parts, 1, <<>>),
              LAMBDA visited :
             IF visited.r /= "Ok" THEN visited
             ELSE [self |-> write_str(dedent(visited.self, 1), <<"}">>),
                   r |-> "Ok", marks |-> visited.marks])

visit_contract(self, contract) ==
    LET docs == visit_docs(self, contract.doc)
        named == and_then(docs, LAMBDA f :
                     write(f, <<contract.ty, <<SP>>, contract.name, <<SP>>>>))
        based == and_then(named, LAMBDA f :
                     IF contract.base /= <<>> THEN visit_bases(f, contract.base)
                     ELSE Ok(f))
    IN  and_then(based, LAMBDA f : visit_body(f, contract.parts))

\* Visitable::visit of a SourceUnitPart: the visitor's method for its kind.
visit_unit(self, unit) ==
    CASE unit.kind = "pragma" -> visit_pragma(self, unit)
      [] unit.kind = "import_plain" -> visit_import_plain(self, unit)
      [] unit.kind = "import_global" -> visit_import_global(self, unit)
      [] unit.kind = "import_renames" -> visit_import_renames(self, unit)
      [] unit.kind = "enum" -> visit_enum(self, unit)
      [] unit.kind = "contract" -> visit_contract(self, unit)

is_pragma(u) == u.kind = "pragma"
is_import(u) == u.kind \in {"import_plain", "import_global", "import_renames"}
is_declaration(u) == ~(is_pragma(u) \/ is_import(u))

\* The loop of visit_source_unit from unit i on.
RECURSIVE visit_units(_, _, _)
visit_units(self, source_unit, i) ==
    IF i > Len(source_unit) THEN Ok(self)
    ELSE
      LET unit == source_unit[i]
          visited == and_then(visit_unit(self, unit), writeln)
          next_is_declaration ==
              IF i + 1 <= Len(source_unit) THEN is_declaration(source_unit[i + 1])
              ELSE FALSE
      IN  IF visited.r /= "Ok" THEN visited
          ELSE visit_units(
                  IF \/ (i /= Len(source_unit) /\ is_declaration(unit))
                     \/ is_pragma(unit)
                     \/ next_is_declaration
                  THEN write_str(visited.self, <<NL>>) ELSE visited.self,
                  source_unit, i + 1)

visit_source_unit(self, source_unit) == visit_units(self, source_unit, 1)

----------------------------------------------------------------------------
(* Parsed files: a source text and the source unit solang::parser::parse gives
   for it, as tests::test_formatter hands them to the formatter *)

SeqsUpTo(S, n) == UNION {[1..k -> S] : k \in 0..n}

T_contract == <<"c", "o", "n", "t", "r", "a", "c", "t">>
T_constructor == <<"c", "o", "n", "s", "t", "r", "u", "c", "t", "o", "r", "(", ")", SP>>
T_function == <<"f", "u", "n", "c", "t", "i", "o", "n", SP, "f", "(", ")">>
T_var == <<"u", SP, "x">>
T_enum_E == <<"e", "n", "u", "m", SP, "E", "{", "X", "}">>
T_block == <<"{", "}">>

Doc == [tag |-> <<"d">>, value |-> <<"v">>]

RECURSIVE sum_len(_)
sum_len(texts) == IF texts = <<>> THEN 0 ELSE Len(Head(texts)) + sum_len(Tail(texts))

\* The text of a member of a contract body as the source has it, and what
\* follows its span: the ';' of a declaration, the block of a constructor.
member_text(kind) ==
    CASE kind = "var" -> T_var
      [] kind = "enum" -> T_enum_E
      [] kind = "function" -> T_function
      [] kind = "constructor" -> T_constructor

member_rest(kind) ==
    CASE kind = "var" -> <<";">>
      [] kind = "enum" -> <<>>
      [] kind = "function" -> <<";">>
      [] kind = "constructor" -> T_block

\* The node of a member whose span starts at offset at.
member_node(kind, at) ==
    LET loc == <<0, at, at + Len(member_text(kind))>>
    IN  CASE kind = "var" -> [kind |-> "var", loc |-> loc]
          [] kind = "enum" ->
              [kind |-> "enum", name |-> <<"E">>, values |-> <<<<"X">>>>, loc |-> loc]
          [] kind = "function" ->
              [kind |-> "func", ty |-> "Function", doc |-> <<>>, loc |-> loc,
               body |-> <<>>]
          [] kind = "constructor" ->
              [kind |-> "func", ty |-> "Constructor", doc |-> <<>>, loc |-> loc,
               body |-> <<<<0, loc[3], loc[3] + Len(T_block)>>>>]

\* The body of a contract: its members, members[i] followed by gaps[i] line
\* breaks (none: the next member is on the same line, directly after this one).
RECURSIVE body_text(_, _)
body_text(members, gaps) ==
    IF members = <<>> THEN <<>>
    ELSE member_text(Head(members)) \o member_rest(Head(members))
            \o (IF gaps = <<>> THEN <<NL>> ELSE repeat(NL, Head(gaps)))
            \o body_text(Tail(members), IF gaps = <<>> THEN <<>> ELSE Tail(gaps))

RECURSIVE body_nodes(_, _, _)
body_nodes(members, gaps, at) ==
    IF members = <<>> THEN <<>>
    ELSE <<member_node(Head(members), at)>>
            \o body_nodes(Tail(members), IF gaps = <<>> THEN <<>> ELSE Tail(gaps),
                   at + Len(member_text(Head(members))) + Len(member_rest(Head(members)))
                      + (IF gaps = <<>> THEN 1 ELSE Head(gaps)))

\* contract C [is <bases>] {<members>}
contract_head(bases) ==
    T_contract \o <<SP, "C", SP>>
        \o (IF bases = <<>> THEN <<>> ELSE T_is \o <<SP>> \o join(bases, CommaSpace) \o <<SP>>)
        \o <<"{">>

base_node(bases, i) ==
    LET at == Len(T_contract) + 3 + Len(T_is) + 1
                + sum_len(SubSeq(bases, 1, i - 1)) + 2 * (i - 1)
    IN  [loc |-> <<0, at, at + Len(bases[i])>>]

contract_source(bases, members, gaps) ==
    contract_head(bases) \o (IF members = <<>> THEN <<>> ELSE <<NL>>)
        \o body_text(members, gaps) \o <<"}">>

contract_node(docs, bases, members, gaps) ==
    [kind |-> "contract", doc |-> docs, ty |-> T_contract, name |-> <<"C">>,
     base |-> [i \in 1..Len(bases) |-> base_node(bases, i)],
     parts |-> body_nodes(members, gaps, Len(contract_head(bases)) + 1),
     loc |-> <<0, 0, Len(contract_source(bases, members, gaps))>>]

Parsed(source, unit) == [source |-> source, unit |-> unit]

BaseNames == {<<"A">>, <<"B", "b">>}
MemberKinds == {"var", "enum", "function", "constructor"}

ContractsWithBases ==
    {Parsed(contract_source(bases, <<>>, <<>>), <<contract_node(docs, bases, <<>>, <<>>)>>) :
        bases \in SeqsUpTo(BaseNames, MaxBases), docs \in {<<>>, <<Doc>>}}

Bodies ==
    UNION {[1..k -> MemberKinds] \X [1..(k - 1) -> 0..MaxGapNewlines] : k \in 1..MaxParts}

ContractsWithBodies ==
    {Parsed(contract_source(<<>>, b[1], b[2]), <<contract_node(<<>>, <<>>, b[1], b[2])>>) :
        b \in Bodies}

ImportNames == {<<"A">>, <<"A", "B">>, <<"B">>}
ImportEntries == ImportNames \X {<<>>, <<<<"x">>>>}

RenamedImports ==
    {Parsed(<<>>, <<[kind |-> "import_renames", imports |-> imports, from |-> <<"f">>]>>) :
        imports \in SeqsUpTo(ImportEntries, MaxImports)}

Enums ==
    {[kind |-> "enum", name |-> <<"E">>, values |-> values, loc |-> <<0, 0, 0>>] :
        values \in SeqsUpTo({<<"X">>, <<"Y">>}, MaxValues)}

Pragmas ==
    {[kind |-> "pragma", ident |-> T_solidity, str |-> <<"0", ".", "8">>, semver |-> v] :
        v \in {<<>>, <<<<"^", "0", ".", "8">>>>}}
    \cup {[kind |-> "pragma", ident |-> <<"a">>, str |-> <<"v">>, semver |-> <<>>]}

PlainImport == [kind |-> "import_plain", string |-> <<"f">>]
GlobalImport == [kind |-> "import_global", string |-> <<"f">>, alias |-> <<"x">>]
EmptyContract == contract_node(<<>>, <<>>, <<>>, <<>>)

SingleUnits ==
    {Parsed(<<>>, <<u>>) : u \in Enums \cup Pragmas \cup {GlobalImport}}

\* Files of several units: what decides the lines between them is their kinds.
UnitKinds ==
    {[kind |-> "pragma", ident |-> <<"a">>, str |-> <<"v">>, semver |-> <<>>],
     PlainImport, EmptyContract,
     [kind |-> "enum", name |-> <<"E">>, values |-> <<>>, loc |-> <<0, 0, 0>>]}

Files == {Parsed(<<>>, units) : units \in SeqsUpTo(UnitKinds, MaxUnits)}

ParsedFiles ==
    ContractsWithBases \cup ContractsWithBodies \cup RenamedImports \cup SingleUnits
        \cup Files

----------------------------------------------------------------------------
(* Calls *)

Configs ==
    {[line_length |-> l, tab_width |-> 4, bracket_spacing |-> b] :
        l \in {20, 80}, b \in BOOLEAN}

\* call after operation op was called with arg on the formatter pre and gave res.
Called(op, arg, pre, res) ==
    call' = [op |-> op, arg |-> arg, pre |-> pre, r |-> res.r,
             marks |-> IF "marks" \in DOMAIN res THEN res.marks ELSE <<>>]

Constructed ==
    call = [op |-> "new", arg |-> <<>>, pre |-> fmt, r |-> "Ok", marks |-> <<>>]

\* res is what a call of op with arg on the formatter gave.
Returns(op, arg, res) ==
    /\ fmt' = res.self
    /\ Called(op, arg, fmt, res)
    /\ UNCHANGED ast

----------------------------------------------------------------------------
(* Formatting a parsed file: the visitor's methods, each called on the
   formatter as constructed *)

Init ==
    \E file \in ParsedFiles, config \in Configs :
        /\ fmt = new(file.source, config)
        /\ ast = file.unit
        /\ Constructed

Fresh == call.op = "new"

Units(kind) == {i \in 1..Len(ast) : ast[i].kind = kind}

\* The members of kind of the contracts of the file.
Parts(kind) ==
    {ast[i].parts[j] : <<i, j>> \in
        {p \in (1..Len(ast)) \X (1..MaxParts + 1) :
            /\ ast[p[1]].kind = "contract"
            /\ p[2] <= Len(ast[p[1]].parts)
            /\ ast[p[1]].parts[p[2]].kind = kind}}

VisitSourceUnit ==
    /\ Fresh
    /\ Returns("visit_source_unit", ast, visit_source_unit(fmt, ast))

VisitDocComment ==
    \E i \in Units("contract") : \E d \in 1..Len(ast[i].doc) :
        /\ Fresh
        /\ Returns("visit_doc_comment", ast[i].doc[d], visit_doc_comment(fmt, ast[i].doc[d]))

VisitContract ==
    \E i \in Units("contract") :
        /\ Fresh
        /\ Returns("visit_contract", ast[i], visit_contract(fmt, ast[i]))

VisitPragma ==
    \E i \in Units("pragma") :
        /\ Fresh
        /\ Returns("visit_pragma", ast[i], visit_pragma(fmt, ast[i]))

VisitImportPlain ==
    \E i \in Units("import_plain") :
        /\ Fresh
        /\ Returns("visit_import_plain", ast[i], visit_import_plain(fmt, ast[i]))

VisitImportGlobal ==
    \E i \in Units("import_global") :
        /\ Fresh
        /\ Returns("visit_import_global", ast[i], visit_import_global(fmt, ast[i]))

VisitImportRenames ==
    \E i \in Units("import_renames") :
        /\ Fresh
        /\ Returns("visit_import_renames", ast[i], visit_import_renames(fmt, ast[i]))

VisitEnum ==
    \E e \in {ast[i] : i \in Units("enum")} \cup Parts("enum") :
        /\ Fresh
        /\ Returns("visit_enum", e, visit_enum(fmt, e))

VisitFunction ==
    \E func \in Parts("func") :
        /\ Fresh
        /\ Returns("visit_function", func, visit_function(fmt, func))

VisitVarDef ==
    \E var \in Parts("var") :
        /\ Fresh
        /\ Returns("visit_var_def", var, visit_var_def(fmt, var))

\* The offset of the first byte of w at or after offset at that is not a space.
RECURSIVE skip_spaces(_, _)
skip_spaces(w, at) ==
    IF at < Len(w) /\ w[at + 1] = SP THEN skip_spaces(w, at + 1) ELSE at

\* The member part as a parse of the output w finds it, written between the
\* offsets mark[1] and mark[2]: a declaration's span ends before its ';', a
\* constructor's before its block.
parse_part(part, w, mark) ==
    LET start == skip_spaces(w, mark[1])
        block == IF part.kind = "func" /\ part.body /= <<>>
                 THEN part.body[1][3] - part.body[1][2] ELSE 0
    IN  CASE part.kind = "enum" -> [part EXCEPT !.loc = <<0, start, mark[2]>>]
          [] part.kind = "var" -> [part EXCEPT !.loc = <<0, start, mark[2] - 1>>]
          [] part.kind = "func" /\ part.body = <<>> ->
              [part EXCEPT !.loc = <<0, start, mark[2] - 1>>]
          [] part.kind = "func" /\ part.body /= <<>> ->
              [part EXCEPT !.loc = <<0, start, mark[2] - block>>,
                           !.body = <<<<0, mark[2] - block, mark[2]>>>>]

parse_contract(contract, w, marks) ==
    [contract EXCEPT !.parts = [i \in 1..Len(contract.parts) |->
                                    parse_part(contract.parts[i], w, marks[i])],
                     !.loc = <<0, 0, Len(w)>>]

\* tests::test_formatter on the output of a run: the output is parsed and
\* formatted with the same configuration.
Reformat ==
    /\ call.op = "visit_contract"
    /\ call.r = "Ok"
    /\ call.arg.base = <<>> /\ call.arg.doc = <<>> /\ call.arg.parts /= <<>>
    /\ LET contract == parse_contract(call.arg, fmt.w, call.marks)
           formatter == new(fmt.w, fmt.config)
           res == visit_contract(formatter, contract)
       IN  /\ fmt' = res.self
           /\ ast' = <<contract>>
           /\ Called("reformat", contract, formatter, res)

Next ==
    \/ Reformat
    \/ VisitSourceUnit
    \/ VisitDocComment
    \/ VisitContract
    \/ VisitPragma
    \/ VisitImportPlain
    \/ VisitImportGlobal
    \/ VisitImportRenames
    \/ VisitEnum
    \/ VisitFunction
    \/ VisitVarDef

Spec == Init /\ [][Next]_vars

----------------------------------------------------------------------------
(* The writer on its own: writes, indents and captures in any order *)

WriterSource == <<"a", Lead, Cont, NL>>

WriterTexts == {<<"a">>, <<NL>>, <<"a", NL>>, <<NL, "}">>, <<"a", "a">>}

\* The spans of a source that are not empty: 0 <= start < end <= len(source).
\* A span may end inside the source's non-ASCII character, which is the case
\* visit_source has its Utf8Error for.
Locs(source) ==
    {loc \in {0} \X (0..Len(source)) \X (0..Len(source)) : loc[2] < loc[3]}

\* The operations are tried while the formatter is small (a failed capture ends the run).
SmallOutput ==
    Len(fmt.w) <= MaxOut /\ fmt.current_line <= MaxLine /\ fmt.bufs = <<>>

InitWriter ==
    /\ fmt = new(WriterSource, DefaultConfig)
    /\ ast = <<>>
    /\ Constructed

WriteStr ==
    \E s \in WriterTexts :
        /\ SmallOutput
        /\ Returns("write_str", s, Ok(write_str(fmt, s)))

Indent ==
    /\ SmallOutput
    /\ level(fmt) < MaxLevel
    /\ Returns("indent", 1, Ok(indent(fmt, 1)))

Dedent ==
    /\ SmallOutput
    /\ Returns("dedent", 1, Ok(dedent(fmt, 1)))

VisitSource ==
    \E loc \in Locs(fmt.source) :
        /\ SmallOutput
        /\ Returns("visit_source", loc, visit_source(fmt, loc))

VisitToString ==
    \E loc \in Locs(fmt.source) :
        /\ SmallOutput
        /\ Returns("visit_to_string", loc, visit_to_string(fmt, loc))

NextWriter == WriteStr \/ Indent \/ Dedent \/ VisitSource \/ VisitToString

SpecWriter == InitWriter /\ [][NextWriter]_vars

----------------------------------------------------------------------------
(* What the claims speak of *)

Returned(op) == call.op = op /\ call.r = "Ok"

\* The number of bytes of the last line of t.
RECURSIVE last_line_len(_)
last_line_len(t) ==
    IF t = <<>> \/ t[Len(t)] = NL THEN 0
    ELSE 1 + last_line_len(SubSeq(t, 1, Len(t) - 1))

AtLineStart(t) == t = <<>> \/ t[Len(t)] = NL

\* Where the next write goes.
Destination == IF fmt.bufs /= <<>> THEN fmt.bufs[Len(fmt.bufs)][2] ELSE fmt.w

\* The 1-based index of the first (last) b in t, 0 when there is none.
first_index(t, b) ==
    IF \E i \in 1..Len(t) : t[i] = b
    THEN CHOOSE i \in 1..Len(t) : t[i] = b /\ \A j \in 1..(i - 1) : t[j] /= b
    ELSE 0

last_index(t, b) ==
    IF \E i \in 1..Len(t) : t[i] = b
    THEN CHOOSE i \in 1..Len(t) : t[i] = b /\ \A j \in (i + 1)..Len(t) : t[j] /= b
    ELSE 0

RECURSIVE trim_start(_)
trim_start(t) == IF t /= <<>> /\ is_whitespace(Head(t)) THEN trim_start(Tail(t)) ELSE t

\* The pieces of t between the bytes b.
RECURSIVE split(_, _)
split(t, b) ==
    IF first_index(t, b) = 0 THEN <<t>>
    ELSE <<SubSeq(t, 1, first_index(t, b) - 1)>>
            \o split(SubSeq(t, first_index(t, b) + 1, Len(t)), b)

\* The bracketed construct of the output: from its first '{' to its last '}'.
Bracketed(w) == SubSeq(w, first_index(w, "{"), last_index(w, "}"))

\* The entries the output has between its brackets, in order.
EmittedEntries(w) ==
    LET inner == SubSeq(w, first_index(w, "{") + 1, last_index(w, "}") - 1)
        pieces == split(inner, ",")
        trimmed == [i \in 1..Len(pieces) |-> trim_end(trim_start(pieces[i]))]
    IN  IF trim_start(inner) = <<>> THEN <<>> ELSE trimmed

\* The name of an entry: what precedes " as ".
EntryName(entry) ==
    IF first_index(entry, SP) = 0 THEN entry
    ELSE SubSeq(entry, 1, first_index(entry, SP) - 1)

Count(e, items) == Cardinality({i \in 1..Len(items) : items[i] = e})

SameEntries(a, b) ==
    /\ Len(a) = Len(b)
    /\ \A i \in 1..Len(a) : Count(a[i], a) = Count(a[i], b)

\* The number of blank lines of t between the offsets a and b, which one or
\* more line breaks separate.
BlankLines(t, a, b) == matches_count(slice(t, a, b), NL) - 1

\* k: the blank lines the source has between members i and i + 1 ...
SourceBlank(source, parts, i) ==
    BlankLines(source, part_loc(parts[i])[3], part_loc(parts[i + 1])[2])

\* ... and those the output has between them.
OutputBlank(w, marks, i) == BlankLines(w, marks[i][2], marks[i + 1][1])

\* The span of member i is directly followed by a line break.
BreakFollows(source, parts, i) ==
    /\ part_loc(parts[i])[3] < Len(source)
    /\ source[part_loc(parts[i])[3] + 1] = NL

FormattedContract == Returned("visit_contract") \/ Returned("reformat")

\* Pairs of consecutive members of the contract just formatted.
MemberPairs == 1..(Len(call.arg.parts) - 1)

----------------------------------------------------------------------------
(* The claims *)

\* The rendering of the doc comments of a node: a line each.
DocsLen(docs) ==
    IF docs = <<>> THEN 0
    ELSE Len(docs) * (Len(T_doc) + Len(docs[1].tag) + 1 + Len(docs[1].value) + 1)

\* The offset of the output at which the base list of the contract just
\* visited is laid out: after the doc lines and "<ty> <name> is".
BasesAt ==
    Len(call.pre.w) + DocsLen(call.arg.doc) + Len(call.arg.ty) + 1
        + Len(call.arg.name) + 1 + Len(T_is)

BaseTexts ==
    [i \in 1..Len(call.arg.base) |->
        slice(call.pre.source, call.arg.base[i].loc[2], call.arg.base[i].loc[3])]

\* The single-line rendering of items does not fit: the spaces of indentation
\* still pending on the line, the bytes the output has on its line before the
\* list (at offset at) and the items joined with ", " exceed line_length.
Exceeds(items, at) ==
    LET before == last_line_len(SubSeq(fmt.w, 1, at))
        pending == IF before = 0 /\ AtLineStart(SubSeq(fmt.w, 1, at))
                   THEN fmt.config.tab_width * call.pre.level ELSE 0
    IN  pending + before + Len(join(items, CommaSpace)) > fmt.config.line_length

\* The list of n items laid out from offset at is written one item a line (a
\* line break before the first item and after every item), or on one line.
OnePerLine(n, at) == matches_count(slice(fmt.w, at, Len(fmt.w)), NL) = n + 1
SingleLine(at) == matches_count(slice(fmt.w, at, Len(fmt.w)), NL) = 0

LaidOutByWidth(items, at) ==
    IF Exceeds(items, at) THEN OnePerLine(Len(items), at) ELSE SingleLine(at)

\* C1: a non-empty base list of a contract, and a non-empty rename list of an
\* import, is written one item a line exactly when pending indentation +
\* bytes already on the line + len(join(items, ", ")) > line_length, the items
\* being counted once; on one line otherwise.
WidthRespect ==
    /\ (Returned("visit_contract") /\ call.arg.base /= <<>> /\ call.arg.parts = <<>>)
          => LaidOutByWidth(BaseTexts, BasesAt)
    /\ (Returned("visit_import_renames") /\ call.arg.imports /= <<>>)
          => LaidOutByWidth(
                 [i \in 1..Len(call.arg.imports) |-> import_entry(call.arg.imports[i])],
                 Len(call.pre.w) + Len(T_import) + 1)

BlankLineIdempotence ==
    Returned("reformat") =>
        \A i \in MemberPairs :
            OutputBlank(fmt.w, call.marks, i) =
                SourceBlank(call.pre.source, call.arg.parts, i)

\* The spans of the members of a contract are within the source and in source
\* order, the end of one at or before the start of the next.
SpansInOrder(source, parts) ==
    /\ \A i \in 1..Len(parts) :
          0 <= part_loc(parts[i])[2] /\ part_loc(parts[i])[2] <= part_loc(parts[i])[3]
              /\ part_loc(parts[i])[3] <= Len(source)
    /\ \A i \in 1..(Len(parts) - 1) : part_loc(parts[i])[3] <= part_loc(parts[i + 1])[2]

\* C7: on members whose spans are in range and in source order, adjacent ones
\* included, visit_contract ends with success or a recoverable failure, never
\* with an abort on a slice out of range.
NoAbortOnOrderedSpans ==
    (call.op \in {"visit_contract", "reformat"}
        /\ SpansInOrder(call.pre.source, call.arg.parts)) => call.r /= "Panic"

EmptyBracketForm ==
    IF fmt.config.bracket_spacing THEN <<"{", SP, "}">> ELSE <<"{", "}">>

\* C4: every bracketed construct that is empty (a contract without members,
\* an enumeration without values, a renamed-import list without entries) is
\* rendered "{}" when bracket_spacing is false and "{ }" when it is true.
BracketSpacingToggle ==
    (\/ Returned("visit_contract") /\ call.arg.parts = <<>>
     \/ Returned("visit_enum") /\ call.arg.values = <<>>
     \/ Returned("visit_import_renames") /\ call.arg.imports = <<>>)
        => Bracketed(fmt.w) = EmptyBracketForm

\* What visit_source_unit writes for a unit at the start of a line.
UnitText(unit) == visit_unit(new(fmt.source, fmt.config), unit).self.w

\* The blank line C5 allows after unit i of units.
SeparatedFromNext(units, i) ==
    \/ is_declaration(units[i]) /\ i /= Len(units)
    \/ is_pragma(units[i]) /\ i /= Len(units)
    \/ i /= Len(units) /\ is_declaration(units[i + 1])

RECURSIVE SeparatedUnits(_, _)
SeparatedUnits(units, i) ==
    IF i > Len(units) THEN <<>>
    ELSE UnitText(units[i]) \o <<NL>>
            \o (IF SeparatedFromNext(units, i) THEN <<NL>> ELSE <<>>)
            \o SeparatedUnits(units, i + 1)

\* C5: after each top-level unit and its line break, visit_source_unit emits
\* one blank line exactly when the unit is declaration-like and not the last,
\* or is a pragma that another unit follows, or the next unit is
\* declaration-like; none otherwise, and none after the last unit.
FileRootSeparation ==
    Returned("visit_source_unit") => fmt.w = SeparatedUnits(call.arg, 1)

\* The input of visit_import_renames with its entries in the order p.
Reordered(node, p) ==
    [node EXCEPT !.imports = [i \in 1..Len(node.imports) |-> node.imports[p[i]]]]

\* C6: visit_import_renames emits exactly the entries of its input, their
\* names in non-decreasing byte order, and emits the same for every order of
\* the input entries.
ImportsSorted ==
    Returned("visit_import_renames") =>
        LET emitted == EmittedEntries(fmt.w)
            given == [i \in 1..Len(call.arg.imports) |-> import_entry(call.arg.imports[i])]
        IN  /\ SameEntries(emitted, given)
            /\ \A i \in 1..(Len(emitted) - 1) :
                  str_le(EntryName(emitted[i]), EntryName(emitted[i + 1]))
            /\ \A p \in Permutations(1..Len(given)) :
                  visit_import_renames(call.pre, Reordered(call.arg, p)).self.w = fmt.w

\* A list given out of order, with a name that is a prefix of another, was emitted.
UnsortedImportsVisited ==
    /\ Returned("visit_import_renames")
    /\ Len(call.arg.imports) >= 3
    /\ \E i \in 1..(Len(call.arg.imports) - 1) :
          str_lt(call.arg.imports[i + 1][1], call.arg.imports[i][1])
    /\ \E i, j \in 1..Len(call.arg.imports) :
          /\ call.arg.imports[i][1] = <<"A">> /\ call.arg.imports[i][2] /= <<>>
          /\ call.arg.imports[j][1] = <<"A", "B">>

\* C8: whenever visit_to_string returns, with success or with the failure of
\* the visit it wraps, the buffer stack is as deep as it was at the call.
CaptureStackRestored ==
    call.op = "visit_to_string" => Len(fmt.bufs) = Len(call.pre.bufs)

\* C9: after any sequence of writes, indents, dedents and captures,
\* pending_indent is true exactly when the destination of the next write is at
\* the start of a line.
PendingIndentAtLineStart == fmt.pending_indent <=> AtLineStart(Destination)

\* C10: after any sequence of writes, current_line is the number of bytes
\* written to the output since its last line break, and is 0 exactly at the
\* start of a line.
CurrentLineCountsBytes ==
    /\ fmt.current_line = last_line_len(Destination)
    /\ fmt.current_line = 0 <=> AtLineStart(Destination)

=============================================================================
